---- MODULE Spec2Model ----
(***************************************************************************)
(* Model of the browser-driven contact-extraction pipeline of              *)
(* linkedin-contact-cli (src/index.js): input reading, URL classification, *)
(* the expansion session, collection expansion, target resolution, the     *)
(* extraction session, per-profile scraping and export; and of the bank   *)
(* guide's React components (oman-bank-guide-main/src): the Index page,    *)
(* DataCollector and BankDetails.                                          *)
(*                                                                         *)
(* Strings are sequences of tokens.  The tokens are chosen so that every   *)
(* literal the code's regular expressions and string tests look for is one *)
(* token ("linkedin.com", "/in/", "?", "#", ...), so a regex search over   *)
(* the characters is a search for adjacent tokens.                         *)
(***************************************************************************)
EXTENDS Integers, Sequences, FiniteSets, TLC

VARIABLES
    pc,             \* position of main
    sess,           \* which session block main is in: "pre" (194-198) or "main" (214-218)
    urls,           \* main's variable urls
    directProfileUrls,
    collectionUrls,
    browsers,       \* [pre |-> browserPre, main |-> browser]: "none" | "open" | "closed"
    needsLogin,     \* ensureLoggedIn's local
    expandedFromCollections,
    ci,             \* index of the collection being expanded (for .. of collectionUrls)
    round,          \* expandPeopleCollectionToProfiles' loop counter i
    collected,      \* expandPeopleCollectionToProfiles' Set, in insertion order
    discovered,     \* profile URLs the scans of the current expansion showed, in order
    maxProfiles,    \* expandPeopleCollectionToProfiles' parameter
    delay,          \* ms slept at line 225 since the last loop header, 0 if none
    exFailed,       \* the step of the current expansion that threw, or NoError
    ti,             \* index of the target being scraped (for .. of urls)
    page,           \* the document loaded in the extraction page
    result,         \* scrapeProfile's result object
    clicked,        \* whether the reveal control was activated on the current page
    stepLog,        \* steps of the current scrapeProfile call that failed
    results,        \* main's results array
    active,         \* page-driving calls in progress
    output,         \* the output artifact: NoOutput or [mode, path, rows]
    writes,         \* number of writeFile calls that completed
    exitCode,       \* the process exit status, meaningful once pc = "exited"
    env,            \* process.env: [LI_COOKIES_JSON, LI_AT]
    jar,            \* the cookies of the current browsing context
    bankData,       \* Index state: [banks, lastUpdated]
    selectedBank,   \* Index state: the bank BankDetails is mounted with, or NoBank (null)
    stored,         \* what loadBankData returns: the data saveBankData persisted last
    clock,          \* the value new Date() / Date.now() gives to the next handler
    toast,          \* the toast shown last (useToast)
    isCollecting,   \* DataCollector state
    progress,       \* DataCollector state
    collectionResults, \* DataCollector state
    searchUrl,      \* DataCollector state
    invocations,    \* simulateDataCollection calls that have started and not finished, by pending timer
    selectedBranch, \* BankDetails state: a Branch, or NoBranch (null)
    activeTab,      \* BankDetails state
    isAddingEmployee, \* BankDetails state
    isAddingBranch, \* BankDetails state
    isQuickAddOpen, \* BankDetails state: a branch id, or NoId (null)
    newEmployee,    \* BankDetails state: the employee form
    newBranch       \* BankDetails state: the branch form

vars == <<pc, sess, urls, directProfileUrls,
          collectionUrls, browsers, needsLogin,
          expandedFromCollections, ci, round, collected, discovered, exFailed,
          ti, page, result, clicked, stepLog, results, active,
          output, writes, exitCode, env, jar, maxProfiles, delay,
          bankData, selectedBank, stored, clock, toast,
          isCollecting, progress, collectionResults, searchUrl, invocations,
          selectedBranch, activeTab, isAddingEmployee, isAddingBranch,
          isQuickAddOpen, newEmployee, newBranch>>

-----------------------------------------------------------------------------
(* Sequence helpers *)

Range(s) == {s[i] : i \in 1..Len(s)}

NoDup(s) == \A i, j \in 1..Len(s) : s[i] = s[j] => i = j

RECURSIVE SetAdd(_, _)
\* Array.from(new Set(s)): first occurrences, in insertion order
SetAdd(acc, s) ==
    IF s = <<>> THEN acc
    ELSE SetAdd(IF Head(s) \in Range(acc) THEN acc ELSE Append(acc, Head(s)), Tail(s))

ArrayFromSet(s) == SetAdd(<<>>, s)

\* s.split(sep)[0]: the tokens before the first occurrence of sep
RECURSIVE SplitFirst(_, _)
SplitFirst(s, sep) ==
    IF s = <<>> \/ Head(s) = sep THEN <<>>
    ELSE <<Head(s)>> \o SplitFirst(Tail(s), sep)

Blank == " "

RECURSIVE TrimLeft(_)
TrimLeft(s) == IF s # <<>> /\ Head(s) = Blank THEN TrimLeft(Tail(s)) ELSE s

RECURSIVE TrimRight(_)
TrimRight(s) ==
    IF s # <<>> /\ s[Len(s)] = Blank THEN TrimRight(SubSeq(s, 1, Len(s) - 1)) ELSE s

\* String.prototype.trim
Trim(s) == TrimRight(TrimLeft(s))

-----------------------------------------------------------------------------
(* URL helpers, index.js 36-48 *)

HttpTokens == {"https://www.", "https://", "http://"}

Origin == <<"https://www.", "linkedin.com">>

\* [^/]+ : tokens without a slash
Words == {"alice", "bob", "acme", "x=1", "next="}

toAbsoluteUrl(url) ==
    IF url = <<>> THEN url
    ELSE IF Head(url) \in HttpTokens THEN url
    ELSE Origin \o url

isProfileUrl(url) ==
    \E i \in 1..(Len(url) - 1) : url[i] = "linkedin.com" /\ url[i + 1] = "/in/"

isPeopleCollectionUrl(url) ==
    \/ \E i \in 1..(Len(url) - 3) :
          /\ url[i] = "linkedin.com"
          /\ url[i + 1] \in {"/company/", "/school/"}
          /\ url[i + 2] \in Words
          /\ url[i + 3] \in {"/people", "/people/"}
    \/ \E i \in 1..(Len(url) - 1) :
          url[i] = "linkedin.com" /\ url[i + 1] = "/search/results/people"

-----------------------------------------------------------------------------
(* Text extractors, index.js 26-34.  A text is a sequence of tokens; the    *)
(* tokens below are the ones the regular expressions match as a whole.     *)

\* tokens of the shape local@domain.tld ([A-Z0-9._%+-]+@[A-Z0-9.-]+\.[A-Z]{2,}, flag i)
EmailTokens == {"A.Name@Example.com", "A.NAME@example.com", "bob@acme.om"}

\* tokens the phone pattern matches; \d is an ASCII digit
PhoneTokens == {"+968 2412 3456", "0551234567"}

IsEmailToken(t) == t \in EmailTokens

IsPhoneToken(t) == t \in PhoneTokens

extractEmails(text) == ArrayFromSet(SelectSeq(text, IsEmailToken))

extractPhones(text) == ArrayFromSet(SelectSeq(text, IsPhoneToken))

-----------------------------------------------------------------------------
(* Link allow-list, index.js 156-160 *)

SchemeTokens == {"mailto:", "tel:"}

\* tokens containing twitter.com, github.com, ..., personal, portfolio, site, blog (flag i)
KeywordTokens == {"github.com", "GitHub.com", "/portfolio", "myblog.om"}

IsAllowedLink(clean) ==
    \/ \E i \in 1..Len(clean) : clean[i] \in SchemeTokens
    \/ \E i \in 1..(Len(clean) - 1) : clean[i] = "linkedin.com" /\ clean[i + 1] = "/in/"
    \/ \E i \in 1..Len(clean) : clean[i] \in KeywordTokens

NonEmptyHref(href) == href # <<>>

RECURSIVE MapAbsolute(_)
MapAbsolute(hrefs) ==
    IF hrefs = <<>> THEN <<>>
    ELSE <<toAbsoluteUrl(Head(hrefs))>> \o MapAbsolute(Tail(hrefs))

\* the loop of lines 152-163 followed by line 164
CollectLinks(hrefs) ==
    ArrayFromSet(SelectSeq(MapAbsolute(SelectSeq(hrefs, NonEmptyHref)), IsAllowedLink))

-----------------------------------------------------------------------------
(* The inputs and the documents the browser can show *)

UAlice == <<"https://www.", "linkedin.com", "/in/", "alice">>

UAliceQ == <<"https://www.", "linkedin.com", "/in/", "alice", "?", "x=1">>

UBob == <<"https://www.", "linkedin.com", "/in/", "bob">>

UComment == <<Blank, "#", "alice">>

UColl == <<"https://www.", "linkedin.com", "/company/", "acme", "/people/">>

\* a people listing whose query string carries a profile path
UCollBoth == <<"https://www.", "linkedin.com", "/company/", "acme", "/people/",
               "?", "next=", "linkedin.com", "/in/", "bob">>

UOther == <<"https://", "example.com", "/about">>

\* a profile path without scheme and host, and a profile URL without scheme
URel == <<"/in/", "alice">>

USchemeless == <<"linkedin.com", "/in/", "alice">>

\* lines the --input file can hold (before trim), and values --url can take
FileLines == {UAlice, UComment, UColl, <<Blank>>, URel}

ArgUrls == {UAliceQ, UCollBoth, UOther, USchemeless}

MaxFileLines == 2

MaxArgUrls == 1

\* argv.input: absent, or a file holding the given lines
NoFile == [given |-> FALSE, lines |-> <<>>]

File(ls) == [given |-> TRUE, lines |-> ls]

BSeq(S, n) == UNION {[1..k -> S] : k \in 0..n}

OutputPaths == {<<"out", ".json">>, <<"out", ".CSV">>, <<"out", ".csv", ".bak">>}

\* what a.href of the anchors matching a[href*="/in/"] can be in one scan
ScanBatches ==
    { <<>>,
      <<UAliceQ, UBob \o <<"#", "top">>>>,
      <<UBob, UAlice, <<"https://", "example.com", "/in/", "x">>>> }

\* an element a locator can resolve: its text, or nothing when no element matches
Elem(t) == [found |-> TRUE, text |-> t]

Absent == [found |-> FALSE, text |-> <<>>]

\* documents of the site
DocAlice ==
    [h1 |-> Elem(<<Blank, "Alice", Blank>>), headline |-> Elem(<<"Engineer">>),
     reveal |-> "visible",
     text |-> <<"Contact:", "A.Name@Example.com", "A.NAME@example.com">>,
     panel |-> <<"+968 2412 3456", "bob@acme.om">>,
     hrefs |-> << <<"mailto:", "bob@acme.om">>, <<"/in/", "bob">>, <<>>,
                  <<"https://", "GitHub.com", "/alice">>, UOther,
                  <<"/in/", "bob">> >>]

DocBare ==
    [h1 |-> Absent, headline |-> Absent, reveal |-> "absent",
     text |-> <<"0551234567", "0551234567">>, panel |-> <<>>,
     hrefs |-> <<>>]

\* the number 0551234567 written in Eastern Arabic-Indic digits (U+06F0..U+06F9):
\* no character of it is matched by \d
EasternNumber == "<0551234567 in Eastern Arabic-Indic digits>"

DocBob ==
    [h1 |-> Elem(<<"Bob">>), headline |-> Absent, reveal |-> "stale",
     text |-> <<EasternNumber>>, panel |-> <<"bob@acme.om">>,
     hrefs |-> << <<"tel:", "0551234567">> >>]

\* a URL with scheme and host
IsAbsolute(url) == Len(url) >= 2 /\ Head(url) \in HttpTokens

\* the documents a navigation to url can load; page.goto rejects a URL
\* that has no scheme
Site(url) ==
    IF ~IsAbsolute(url) THEN {}
    ELSE IF "?" \in Range(url) THEN {DocBare}
    ELSE IF "alice" \in Range(url) THEN {DocAlice, DocBare}
    ELSE {DocBob}

\* the document of a page that has not navigated yet
BlankPage ==
    [h1 |-> Absent, headline |-> Absent, reveal |-> "absent",
     text |-> <<>>, panel |-> <<>>, hrefs |-> <<>>]

NoError == "<no error>"

NoOutput == [mode |-> "none", path |-> <<>>, rows |-> <<>>]

-----------------------------------------------------------------------------
(* The environment, index.js 90-92 and 108 *)

\* entries of the LI_COOKIES_JSON array; a missing property is "" / "unset"
ELiAtA ==
    [name |-> "li_at", value |-> "a", domain |-> "", path |-> "",
     httpOnly |-> "unset", secure |-> "unset", sameSite |-> ""]

ELiAtB ==
    [name |-> "li_at", value |-> "b", domain |-> ".www.linkedin.com", path |-> "/",
     httpOnly |-> "true", secure |-> "false", sameSite |-> "None"]

ESession ==
    [name |-> "JSESSIONID", value |-> "s", domain |-> "", path |-> "/",
     httpOnly |-> "false", secure |-> "true", sameSite |-> ""]

\* the JSON value null as an array entry
ENull ==
    [name |-> "<null>", value |-> "", domain |-> "", path |-> "",
     httpOnly |-> "unset", secure |-> "unset", sameSite |-> ""]

Entries == {ELiAtA, ELiAtB, ESession, ENull}

MaxCookies == 2

\* LI_COOKIES_JSON: unset or empty, not JSON, JSON that is no array, an array
JsonUnset == [kind |-> "unset", items |-> <<>>]

JsonInvalid == [kind |-> "invalid", items |-> <<>>]

JsonObject == [kind |-> "object", items |-> <<>>]

JsonArray(es) == [kind |-> "array", items |-> es]

JsonValues ==
    {JsonUnset, JsonInvalid, JsonObject} \cup {JsonArray(es) : es \in BSeq(Entries, MaxCookies)}

\* LI_AT: unset or empty, or a token
Tokens == {"", "tok"}

Envs == [LI_COOKIES_JSON : JsonValues, LI_AT : Tokens]

\* the environments the whole pipeline is run in
RunEnvs ==
    {[LI_COOKIES_JSON |-> JsonUnset, LI_AT |-> ""],
     [LI_COOKIES_JSON |-> JsonUnset, LI_AT |-> "tok"]}

-----------------------------------------------------------------------------
(* Initial state: main has been entered (index.js 171)                      *)

listVars == <<urls, directProfileUrls, collectionUrls>>

loginVars == <<needsLogin>>

expandVars ==
    <<expandedFromCollections, ci, round, collected, discovered, exFailed, maxProfiles>>

scrapeVars == <<ti, page, result, clicked, stepLog, results>>

outVars == <<output, writes, exitCode>>

cookieVars == <<env, jar>>

indexVars == <<bankData, selectedBank, stored, clock>>

collectorVars == <<isCollecting, progress, collectionResults, searchUrl, invocations>>

detailsVars ==
    <<selectedBranch, activeTab, isAddingEmployee, isAddingBranch,
      isQuickAddOpen, newEmployee, newBranch>>

\* the state of the React application, which the command-line run never touches
uiVars == <<indexVars, collectorVars, detailsVars, toast>>

-----------------------------------------------------------------------------
(* The bank guide: the data Index, DataCollector and BankDetails work on.   *)
(* Ids of the form `branch-${Date.now()}` are pairs <<"branch-", time>>.    *)

\* null of a branch id
NoId == <<>>

\* selectedBank = null
NoBank == [id |-> "", branches |-> <<>>]

\* selectedBranch = null
NoBranch ==
    [id |-> NoId, bankId |-> "", name |-> "", city |-> "", address |-> "",
     employees |-> <<>>]

\* useState's initial bankData (Index 16); lastUpdated 0 stands for ''
EmptyData == [banks |-> <<>>, lastUpdated |-> 0]

\* useState's initial newEmployee (BankDetails 30-37): the required fields
EmptyEmployeeForm == [name |-> "", phone |-> ""]

\* useState's initial newBranch (BankDetails 38-45): the required fields
EmptyBranchForm == [name |-> "", city |-> "", address |-> ""]

\* the useState defaults of DataCollector (20-23), with no call in progress
CollectorNotMounted ==
    /\ isCollecting = FALSE
    /\ progress = 0
    /\ collectionResults = <<>>
    /\ searchUrl = ""
    /\ invocations = <<>>

\* the useState defaults of BankDetails (25-45)
DetailsNotMounted ==
    /\ selectedBranch = NoBranch
    /\ activeTab = "branches"
    /\ isAddingEmployee = FALSE
    /\ isAddingBranch = FALSE
    /\ isQuickAddOpen = NoId
    /\ newEmployee = EmptyEmployeeForm
    /\ newBranch = EmptyBranchForm

\* the application before Index is rendered (Index 16-17)
UiNotMounted ==
    /\ bankData = EmptyData
    /\ selectedBank = NoBank
    /\ stored = EmptyData
    /\ clock = 1
    /\ toast = "none"
    /\ CollectorNotMounted
    /\ DetailsNotMounted

\* the parameter default of line 60
DefaultMaxProfiles == 20

NewResult(url) ==
    [url |-> url, name |-> <<>>, headline |-> <<>>, emails |-> <<>>,
     phones |-> <<>>, links |-> <<>>, error |-> NoError]

Init ==
    /\ pc = "readInput"
    /\ sess = "pre"
    /\ urls = <<>>
    /\ directProfileUrls = <<>>
    /\ collectionUrls = <<>>
    /\ browsers = [pre |-> "none", main |-> "none"]
    /\ needsLogin = FALSE
    /\ expandedFromCollections = <<>>
    /\ ci = 1
    /\ round = 0
    /\ collected = <<>>
    /\ discovered = <<>>
    /\ exFailed = NoError
    /\ ti = 1
    /\ page = BlankPage
    /\ result = NewResult(<<>>)
    /\ clicked = FALSE
    /\ stepLog = {}
    /\ results = <<>>
    /\ active = {}
    /\ output = NoOutput
    /\ writes = 0
    /\ exitCode = 0
    /\ env \in RunEnvs
    /\ jar = <<>>
    /\ maxProfiles = DefaultMaxProfiles
    /\ delay = 0
    /\ UiNotMounted

\* what argv.input can be, and what argv.url can be
InputFiles == {NoFile} \cup {File(ls) : ls \in BSeq(FileLines, MaxFileLines)}

UrlOptions == BSeq(ArgUrls, MaxArgUrls)

-----------------------------------------------------------------------------
(* main, index.js 182-192: reading and classifying the inputs *)

RECURSIVE MapTrim(_)
MapTrim(ls) == IF ls = <<>> THEN <<>> ELSE <<Trim(Head(ls))>> \o MapTrim(Tail(ls))

KeepLine(l) == l # <<>> /\ Head(l) # "#"

\* readLines: split into lines, trim each, drop blank and '#' lines
readLines(file) == SelectSeq(MapTrim(file.lines), KeepLine)

\* an exception escapes main: main().catch runs next
Throw ==
    /\ pc' = "caught"
    /\ UNCHANGED <<uiVars, cookieVars, delay, sess, listVars, browsers, loginVars, expandVars,
                   scrapeVars, active, outVars>>

\* lines 172-189: the command line is parsed, the file read and the urls joined
ReadInput ==
    /\ pc = "readInput"
    /\ \E argvInput \in InputFiles, argvUrl \in UrlOptions :
          \/ /\ urls' = (IF argvInput.given THEN readLines(argvInput) ELSE <<>>)
                         \o argvUrl
             /\ pc' = "classify"
             /\ UNCHANGED <<uiVars, cookieVars, delay, sess, directProfileUrls, collectionUrls, browsers,
                            loginVars, expandVars, scrapeVars, active, outVars>>
          \/ /\ argvInput.given      \* fs.readFile rejects
             /\ Throw

\* lines 190-192
Classify ==
    /\ pc = "classify"
    /\ urls' = ArrayFromSet(urls)
    /\ directProfileUrls' = SelectSeq(urls', isProfileUrl)
    /\ collectionUrls' = SelectSeq(urls', isPeopleCollectionUrl)
    /\ pc' = "launch"
    /\ UNCHANGED <<uiVars, cookieVars, delay, sess, browsers, loginVars, expandVars, scrapeVars,
                   active, outVars>>

-----------------------------------------------------------------------------
(* Opening a session, index.js 194-198 and 214-218, with ensureLoggedIn     *)
(* (116-124).  sess selects browserPre or browser.                         *)

SessionStep(from, to) ==
    /\ pc = from
    /\ \/ /\ pc' = to
          /\ UNCHANGED <<uiVars, cookieVars, delay, sess, listVars, browsers, loginVars, expandVars,
                         scrapeVars, active, outVars>>
       \/ Throw

\* chromium.launch, lines 194 / 214
Launch ==
    /\ pc = "launch"
    /\ \/ /\ browsers' = [browsers EXCEPT ![sess] = "open"]
          /\ pc' = "context"
          /\ expandedFromCollections' = <<>>     \* not read after line 208
          /\ UNCHANGED <<uiVars, cookieVars, delay, sess, listVars, loginVars, ci, round, collected,
                         discovered, exFailed, maxProfiles, scrapeVars, active, outVars>>
       \/ Throw

\* browser.newContext, lines 195 / 215: a fresh context holds no cookie
NewContext ==
    /\ pc = "context"
    /\ \/ /\ jar' = <<>>
          /\ pc' = "cookies"
          /\ UNCHANGED <<uiVars, env, delay, sess, listVars, browsers, loginVars, expandVars,
                         scrapeVars, active, outVars>>
       \/ Throw

\* lines 95-103: the cookie pushed for the entry c
ToCookie(c) ==
    [name |-> c.name, value |-> c.value,
     domain |-> IF c.domain = "" THEN ".linkedin.com" ELSE c.domain,
     path |-> IF c.path = "" THEN "/" ELSE c.path,
     httpOnly |-> c.httpOnly = "true",
     secure |-> c.secure # "false",
     sameSite |-> IF c.sameSite = "" THEN "Lax" ELSE c.sameSite]

\* the loop of lines 94-104 inside the try of 91-106: reading a property of a
\* null entry throws, the catch swallows it and the cookies pushed so far stay
RECURSIVE PushEntries(_, _)
PushEntries(cookies, items) ==
    IF items = <<>> THEN cookies
    ELSE IF Head(items) = ENull THEN cookies
    ELSE PushEntries(Append(cookies, ToCookie(Head(items))), Tail(items))

\* lines 90-107
ListCookies(json) ==
    IF json.kind = "array" THEN PushEntries(<<>>, json.items) ELSE <<>>

\* cookies.find((c) => c.name === 'li_at'), line 108
HasLiAt(cookies) == \E i \in 1..Len(cookies) : cookies[i].name = "li_at"

\* line 109
LiAtCookie(token) ==
    [name |-> "li_at", value |-> token, domain |-> ".linkedin.com", path |-> "/",
     httpOnly |-> TRUE, secure |-> TRUE, sameSite |-> "Lax"]

\* fault: line 108 without the find
MutEnvCookiesNoFind(e) ==
    LET cookies == ListCookies(e.LI_COOKIES_JSON)
    IN  IF e.LI_AT # "" THEN Append(cookies, LiAtCookie(e.LI_AT)) ELSE cookies

\* lines 89-110: the array applyEnvCookies builds
EnvCookies(e) ==
    LET cookies == ListCookies(e.LI_COOKIES_JSON)
    IN  IF e.LI_AT # "" /\ ~HasLiAt(cookies)
        THEN Append(cookies, LiAtCookie(e.LI_AT))
        ELSE cookies

\* applyEnvCookies, lines 196 / 216: context.addCookies is called when the array
\* is not empty (111-113), and can reject
ApplyEnvCookies ==
    /\ pc = "cookies"
    /\ LET cookies == EnvCookies(env)
       IN  \/ /\ jar' = cookies
              /\ pc' = "newPage"
              /\ UNCHANGED <<uiVars, env, delay, sess, listVars, browsers, loginVars, expandVars,
                             scrapeVars, active, outVars>>
           \/ /\ Len(cookies) > 0
              /\ Throw

\* context.newPage, lines 197 / 217
NewPage == SessionStep("newPage", "loginGoto")

\* ensureLoggedIn line 117: the navigation is awaited without a catch
LoginGoto == SessionStep("loginGoto", "loginCheck")

\* where main continues after ensureLoggedIn returns (199 / 219)
AfterLogin == IF sess = "pre" THEN "expandLoop" ELSE "scrapeLoop"

\* ensureLoggedIn line 119: isVisible().catch(() => false)
LoginCheck ==
    /\ pc = "loginCheck"
    /\ \E seen \in {"visible", "hidden", "rejected"} :
          needsLogin' = (seen = "visible")
    /\ pc' = "loginWait"
    /\ UNCHANGED <<uiVars, cookieVars, delay, sess, listVars, browsers, expandVars,
                   scrapeVars, active, outVars>>

\* ensureLoggedIn lines 120-124: sleep(90000) when needsLogin, then return
LoginWait ==
    /\ pc = "loginWait"
    /\ needsLogin' = FALSE         \* the callee's local is gone
    /\ pc' = AfterLogin
    /\ UNCHANGED <<uiVars, cookieVars, delay, sess, listVars, browsers, expandVars,
                   scrapeVars, active, outVars>>

-----------------------------------------------------------------------------
(* Collection expansion: main 200-206 and expandPeopleCollectionToProfiles  *)
(* (60-86)                                                                 *)

MaxProfilesArg == 30

MaxRounds == 15

\* href.split('#')[0].split('?')[0], line 71
CleanHref(href) == SplitFirst(SplitFirst(href, "#"), "?")

\* the loop over hrefs, lines 69-74
\* fault: line 73 missing - the cap is only looked at after the whole scan
RECURSIVE MutHarvestNoInnerBreak(_, _, _)
MutHarvestNoInnerBreak(acc, hrefs, cap) ==
    IF hrefs = <<>> THEN acc
    ELSE IF Head(hrefs) = <<>> THEN MutHarvestNoInnerBreak(acc, Tail(hrefs), cap)
    ELSE LET clean == CleanHref(Head(hrefs))
             acc2 == IF isProfileUrl(clean) /\ clean \notin Range(acc)
                     THEN Append(acc, clean) ELSE acc
         IN  MutHarvestNoInnerBreak(acc2, Tail(hrefs), cap)

RECURSIVE Harvest(_, _, _)
Harvest(acc, hrefs, cap) ==
    IF hrefs = <<>> THEN acc
    ELSE IF Head(hrefs) = <<>> THEN Harvest(acc, Tail(hrefs), cap)
    ELSE LET clean == CleanHref(Head(hrefs))
             acc2 == IF isProfileUrl(clean) /\ clean \notin Range(acc)
                     THEN Append(acc, clean) ELSE acc
         IN  IF Len(acc2) >= cap THEN acc2
             ELSE Harvest(acc2, Tail(hrefs), cap)

\* the profile URLs one scan shows, in document order
RECURSIVE ProfilesShown(_)
ProfilesShown(hrefs) ==
    IF hrefs = <<>> THEN <<>>
    ELSE (IF Head(hrefs) # <<>> /\ isProfileUrl(CleanHref(Head(hrefs)))
          THEN <<CleanHref(Head(hrefs))>> ELSE <<>>) \o ProfilesShown(Tail(hrefs))

\* fault: line 202 without its await - the expansion is started and the loop goes on
MutExpandLoopNoAwait ==
    /\ pc = "expandLoop"
    /\ IF ci <= Len(collectionUrls)
       THEN /\ active' = active \cup {<<"expand", ci>>}
            /\ ci' = ci + 1
            /\ pc' = "expandLoop"
       ELSE /\ pc' = "closePre"
            /\ UNCHANGED <<ci, active>>
    /\ UNCHANGED <<uiVars, cookieVars, delay, sess, listVars, browsers, loginVars,
                   expandedFromCollections, round, collected, discovered, exFailed,
                   maxProfiles, scrapeVars, outVars>>

\* fault: the target list is resolved right after the loop, line 206 comes later
MutExpandLoopSkipsClose ==
    /\ pc = "expandLoop"
    /\ IF ci <= Len(collectionUrls)
       THEN /\ collected' = <<>>
            /\ round' = 0
            /\ discovered' = <<>>
            /\ exFailed' = NoError
            /\ maxProfiles' = MaxProfilesArg
            /\ active' = active \cup {<<"expand", ci>>}
            /\ pc' = "exGoto"
       ELSE /\ pc' = "resolve"
            /\ UNCHANGED <<collected, round, discovered, exFailed, maxProfiles, active>>
    /\ UNCHANGED <<uiVars, cookieVars, delay, sess, listVars, browsers, loginVars,
                   expandedFromCollections, ci, scrapeVars, outVars>>

\* line 201: the loop is over, or the next collection is expanded (line 202)
ExpandLoop ==
    /\ pc = "expandLoop"
    /\ IF ci <= Len(collectionUrls)
       THEN /\ collected' = <<>>
            /\ round' = 0
            /\ discovered' = <<>>
            /\ exFailed' = NoError
            /\ maxProfiles' = MaxProfilesArg
            /\ active' = active \cup {<<"expand", ci>>}
            /\ pc' = "exGoto"
       ELSE /\ pc' = "closePre"
            /\ UNCHANGED <<collected, round, discovered, exFailed, maxProfiles, active>>
    /\ UNCHANGED <<uiVars, cookieVars, delay, sess, listVars, browsers, loginVars,
                   expandedFromCollections, ci, scrapeVars, outVars>>

\* fault: the catch gives up what was harvested
MutExCatchDrop(step) ==
    /\ exFailed' = step
    /\ collected' = <<>>
    /\ pc' = "exReturn"
    /\ UNCHANGED <<uiVars, cookieVars, delay, sess, listVars, browsers, loginVars,
                   expandedFromCollections, ci, round, discovered, maxProfiles,
                   scrapeVars, active, outVars>>

\* the catch of lines 82-84: control goes to the return statement
ExCatch(step) ==
    /\ exFailed' = step
    /\ pc' = "exReturn"
    /\ UNCHANGED <<uiVars, cookieVars, delay, sess, listVars, browsers, loginVars,
                   expandedFromCollections, ci, round, collected, discovered,
                   maxProfiles, scrapeVars, active, outVars>>

ExStep(from, to) ==
    /\ pc = from
    /\ \/ /\ pc' = to
          /\ UNCHANGED <<uiVars, cookieVars, delay, sess, listVars, browsers, loginVars, expandVars,
                         scrapeVars, active, outVars>>
       \/ ExCatch(from)

\* line 63
ExGoto == ExStep("exGoto", "exSettle")

\* line 64
ExSettle == ExStep("exSettle", "exScan")

\* lines 68-75
ExScan ==
    /\ pc = "exScan"
    /\ \/ \E hrefs \in ScanBatches :
            /\ collected' = Harvest(collected, hrefs, maxProfiles)
            /\ discovered' = SetAdd(discovered, ProfilesShown(hrefs))
            /\ pc' = IF Len(collected') >= maxProfiles THEN "exReturn" ELSE "exScroll"
            /\ UNCHANGED <<uiVars, cookieVars, delay, sess, listVars, browsers, loginVars,
                           expandedFromCollections, ci, round, exFailed,
                           maxProfiles, scrapeVars, active, outVars>>
       \/ ExCatch("exScan")

\* lines 76-79
ExScroll == ExStep("exScroll", "exDwell")

\* fault: the loop header of line 67 without its bound
MutExDwellNoBound ==
    /\ pc = "exDwell"
    /\ \/ /\ round' = round + 1
          /\ pc' = "exScan"
          /\ UNCHANGED <<uiVars, cookieVars, delay, sess, listVars, browsers, loginVars,
                         expandedFromCollections, ci, collected, discovered,
                         exFailed, maxProfiles, scrapeVars, active, outVars>>
       \/ ExCatch("exDwell")

\* line 80 and the loop header of line 67
ExDwell ==
    /\ pc = "exDwell"
    /\ \/ /\ round' = round + 1
          /\ pc' = IF round' < MaxRounds THEN "exScan" ELSE "exReturn"
          /\ UNCHANGED <<uiVars, cookieVars, delay, sess, listVars, browsers, loginVars,
                         expandedFromCollections, ci, collected, discovered,
                         exFailed, maxProfiles, scrapeVars, active, outVars>>
       \/ ExCatch("exDwell")

\* line 85, and line 203 in main
ExReturn ==
    /\ pc = "exReturn"
    /\ expandedFromCollections' = expandedFromCollections \o collected
    /\ active' = active \ {<<"expand", ci>>}
    /\ ci' = ci + 1
    /\ pc' = "expandLoop"
    /\ round' = 0                  \* the callee's locals are gone
    /\ collected' = <<>>
    /\ discovered' = <<>>
    /\ exFailed' = NoError
    /\ UNCHANGED <<uiVars, cookieVars, delay, sess, listVars, browsers, loginVars, maxProfiles,
                   scrapeVars, outVars>>

\* fault: line 206 missing
MutClosePreSkipped ==
    /\ pc = "closePre"
    /\ pc' = "resolve"
    /\ UNCHANGED <<uiVars, cookieVars, delay, sess, listVars, browsers, loginVars, expandVars,
                   scrapeVars, active, outVars>>

\* line 206
ClosePre ==
    /\ pc = "closePre"
    /\ browsers' = [browsers EXCEPT !.pre = "closed"]
    /\ pc' = "resolve"
    /\ UNCHANGED <<uiVars, cookieVars, delay, sess, listVars, loginVars, expandVars, scrapeVars,
                   active, outVars>>

\* fault: the discoveries are put before the direct inputs
MutResolveDiscoveriesFirst ==
    /\ pc = "resolve"
    /\ urls' = SelectSeq(ArrayFromSet(expandedFromCollections \o directProfileUrls),
                         isProfileUrl)
    /\ IF Len(urls') = 0
       THEN /\ exitCode' = 1
            /\ pc' = "exited"
            /\ UNCHANGED sess
       ELSE /\ sess' = "main"
            /\ pc' = "launch"
            /\ UNCHANGED exitCode
    /\ UNCHANGED <<uiVars, cookieVars, delay, directProfileUrls, collectionUrls, browsers, loginVars,
                   expandVars, scrapeVars, active, output, writes>>

\* fault: lines 209-212 missing - the run goes on without targets
MutResolveNoExit ==
    /\ pc = "resolve"
    /\ urls' = SelectSeq(ArrayFromSet(directProfileUrls \o expandedFromCollections),
                         isProfileUrl)
    /\ sess' = "main"
    /\ pc' = "launch"
    /\ UNCHANGED <<uiVars, cookieVars, delay, directProfileUrls, collectionUrls, browsers, loginVars,
                   expandVars, scrapeVars, active, outVars>>

\* lines 208-212
Resolve ==
    /\ pc = "resolve"
    /\ urls' = SelectSeq(ArrayFromSet(directProfileUrls \o expandedFromCollections),
                         isProfileUrl)
    /\ IF Len(urls') = 0
       THEN /\ exitCode' = 1
            /\ pc' = "exited"
            /\ UNCHANGED sess
       ELSE /\ sess' = "main"
            /\ pc' = "launch"
            /\ UNCHANGED exitCode
    /\ UNCHANGED <<uiVars, cookieVars, delay, directProfileUrls, collectionUrls, browsers, loginVars,
                   expandVars, scrapeVars, active, output, writes>>

-----------------------------------------------------------------------------
(* Target extraction: main 220-228 and scrapeProfile (126-169)              *)

\* line 221: the loop is over, or scrapeProfile is called (222-223, 127)
ScrapeLoop ==
    /\ pc = "scrapeLoop"
    /\ IF ti <= Len(urls)
       THEN /\ result' = NewResult(urls[ti])
            /\ active' = active \cup {<<"scrape", ti>>}
            /\ pc' = "spGoto"
       ELSE /\ pc' = "close"
            /\ UNCHANGED <<result, active>>
    /\ delay' = 0
    /\ UNCHANGED <<uiVars, cookieVars, sess, listVars, browsers, loginVars, expandVars,
                   ti, page, clicked, stepLog, results, outVars>>

\* fault: the catch builds a fresh record around the message
MutSpCatchReset(step) ==
    /\ result' = [NewResult(result.url) EXCEPT !.error = step]
    /\ stepLog' = stepLog \cup {step}
    /\ pc' = "spReturn"
    /\ UNCHANGED <<uiVars, cookieVars, delay, sess, listVars, browsers, loginVars, expandVars,
                   ti, page, clicked, results, active, outVars>>

\* the catch of lines 165-167
SpCatch(step) ==
    /\ result' = [result EXCEPT !.error = step]
    /\ stepLog' = stepLog \cup {step}
    /\ pc' = "spReturn"
    /\ UNCHANGED <<uiVars, cookieVars, delay, sess, listVars, browsers, loginVars, expandVars,
                   ti, page, clicked, results, active, outVars>>

\* line 129: the navigation loads some document, or fails / times out
SpGoto ==
    /\ pc = "spGoto"
    /\ \/ \E p \in Site(result.url) :
            /\ page' = p
            /\ pc' = "spSettle"
            /\ UNCHANGED <<uiVars, cookieVars, delay, sess, listVars, browsers, loginVars, expandVars,
                           ti, result, clicked, stepLog, results, active, outVars>>
       \/ SpCatch("spGoto")

SpStep(from, to) ==
    /\ pc = from
    /\ \/ /\ pc' = to
          /\ UNCHANGED <<uiVars, cookieVars, delay, sess, listVars, browsers, loginVars, expandVars,
                         scrapeVars, active, outVars>>
       \/ SpCatch(from)

\* line 130
SpSettle == SpStep("spSettle", "spName")

\* (await locator.textContent().catch(() => ''))?.trim() || ''
\* textContent rejects (after its timeout) when no element matches
ReadText(elem, ok) == IF ok THEN Trim(elem.text) ELSE <<>>

\* line 133
SpName ==
    /\ pc = "spName"
    /\ LET ok == page.h1.found
       IN  /\ result' = [result EXCEPT !.name = ReadText(page.h1, ok)]
           /\ stepLog' = IF ok THEN stepLog ELSE stepLog \cup {"spName"}
    /\ pc' = "spHeadline"
    /\ UNCHANGED <<uiVars, cookieVars, delay, sess, listVars, browsers, loginVars, expandVars,
                   ti, page, clicked, results, active, outVars>>

\* line 134
SpHeadline ==
    /\ pc = "spHeadline"
    /\ LET ok == page.headline.found
       IN  /\ result' = [result EXCEPT !.headline = ReadText(page.headline, ok)]
           /\ stepLog' = IF ok THEN stepLog ELSE stepLog \cup {"spHeadline"}
    /\ pc' = "spReveal"
    /\ UNCHANGED <<uiVars, cookieVars, delay, sess, listVars, browsers, loginVars, expandVars,
                   ti, page, clicked, results, active, outVars>>

\* lines 137-138: contactButton.isVisible().catch(() => false); isVisible
\* answers false when no element matches
SpReveal ==
    /\ pc = "spReveal"
    /\ pc' = IF page.reveal # "absent" THEN "spClick" ELSE "spContent"
    /\ UNCHANGED <<uiVars, cookieVars, delay, sess, listVars, browsers, loginVars, expandVars,
                   scrapeVars, active, outVars>>

\* fault: line 139 without its .catch - a failed click reaches the catch of 165
MutSpClickThrows ==
    /\ pc = "spClick"
    /\ IF page.reveal = "visible"
       THEN /\ clicked' = TRUE
            /\ pc' = "spClickWait"
            /\ UNCHANGED <<uiVars, cookieVars, delay, sess, listVars, browsers, loginVars, expandVars,
                           ti, page, result, stepLog, results, active, outVars>>
       ELSE SpCatch("spClick")

\* line 139: click({ timeout: 5000 }).catch(() => {})
SpClick ==
    /\ pc = "spClick"
    /\ LET ok == page.reveal = "visible"      \* a stale control does not respond
       IN  /\ clicked' = ok
           /\ stepLog' = IF ok THEN stepLog ELSE stepLog \cup {"spClick"}
    /\ pc' = "spClickWait"
    /\ UNCHANGED <<uiVars, cookieVars, delay, sess, listVars, browsers, loginVars, expandVars,
                   ti, page, result, results, active, outVars>>

\* line 140
SpClickWait == SpStep("spClickWait", "spContent")

\* page.content(): the document, with the revealed panel once it was opened
FullText == page.text \o (IF clicked THEN page.panel ELSE <<>>)

\* lines 144-146
SpContent ==
    /\ pc = "spContent"
    /\ \/ /\ result' = [result EXCEPT !.emails = extractEmails(FullText),
                                        !.phones = extractPhones(FullText)]
          /\ pc' = "spLinks"
          /\ UNCHANGED <<uiVars, cookieVars, delay, sess, listVars, browsers, loginVars, expandVars,
                         ti, page, clicked, stepLog, results, active, outVars>>
       \/ SpCatch("spContent")

\* lines 149-164: count() or a getAttribute() can reject before line 164 is reached
SpLinks ==
    /\ pc = "spLinks"
    /\ \/ /\ result' = [result EXCEPT !.links = CollectLinks(page.hrefs)]
          /\ pc' = "spReturn"
          /\ UNCHANGED <<uiVars, cookieVars, delay, sess, listVars, browsers, loginVars, expandVars,
                         ti, page, clicked, stepLog, results, active, outVars>>
       \/ SpCatch("spLinks")

\* fault: a record carrying an error is not pushed
MutSpReturnSkipFailed ==
    /\ pc = "spReturn"
    /\ results' = IF result.error = NoError THEN Append(results, result) ELSE results
    /\ active' = active \ {<<"scrape", ti>>}
    /\ pc' = "sleep"
    /\ page' = BlankPage
    /\ result' = NewResult(<<>>)
    /\ clicked' = FALSE
    /\ stepLog' = {}
    /\ UNCHANGED <<uiVars, cookieVars, delay, sess, listVars, browsers, loginVars, expandVars,
                   ti, outVars>>

\* line 168, and line 224 in main
SpReturn ==
    /\ pc = "spReturn"
    /\ results' = Append(results, result)
    /\ active' = active \ {<<"scrape", ti>>}
    /\ pc' = "sleep"
    /\ page' = BlankPage           \* the callee's locals are gone
    /\ result' = NewResult(<<>>)
    /\ clicked' = FALSE
    /\ stepLog' = {}
    /\ UNCHANGED <<uiVars, cookieVars, delay, sess, listVars, browsers, loginVars, expandVars,
                   ti, outVars>>

\* Math.random() is num / RandomDen for some num in 0 .. RandomDen - 1
RandomDen == 3000

\* the values of Math.random() tried: the least, the middle and the greatest
RandomNums == {0, RandomDen \div 2, RandomDen - 1}

\* fault: the base of line 225 missing
MutSleepMsNoBase(num) == (num * 1500) \div RandomDen

\* 1000 + Math.floor(Math.random() * 1500), line 225
SleepMs(num) == 1000 + (num * 1500) \div RandomDen

\* line 225, then the next iteration
Sleep ==
    /\ pc = "sleep"
    /\ \E num \in RandomNums : delay' = SleepMs(num)
    /\ ti' = ti + 1
    /\ pc' = "scrapeLoop"
    /\ UNCHANGED <<uiVars, cookieVars, sess, listVars, browsers, loginVars, expandVars,
                   page, result, clicked, stepLog, results, active, outVars>>

\* line 228
Close ==
    /\ pc = "close"
    /\ browsers' = [browsers EXCEPT !.main = "closed"]
    /\ pc' = "write"
    /\ UNCHANGED <<uiVars, cookieVars, delay, sess, listVars, loginVars, expandVars, scrapeVars,
                   active, outVars>>

-----------------------------------------------------------------------------
(* Export, index.js 230-245, and process exit                              *)

\* String.prototype.toLowerCase on the extension token
ToLower(tok) == IF tok \in {".CSV", ".Csv", ".csv"} THEN ".csv" ELSE tok

\* outPath.toLowerCase().endsWith('.csv'), line 231
IsCsvPath(path) == path # <<>> /\ ToLower(path[Len(path)]) = ".csv"

\* lines 230-243: one writeFile call, which can reject
Write ==
    /\ pc = "write"
    /\ \/ \E argvOutput \in OutputPaths :
            /\ output' = [mode |-> IF IsCsvPath(argvOutput) THEN "csv" ELSE "json",
                          path |-> argvOutput, rows |-> results]
            /\ writes' = writes + 1
            /\ pc' = "log"
            /\ UNCHANGED <<uiVars, cookieVars, delay, sess, listVars, browsers, loginVars, expandVars,
                           scrapeVars, active, exitCode>>
       \/ Throw

\* line 245; main's promise resolves and the process ends with status 0
Log ==
    /\ pc = "log"
    /\ exitCode' = 0
    /\ pc' = "exited"
    /\ UNCHANGED <<uiVars, cookieVars, delay, sess, listVars, browsers, loginVars, expandVars,
                   scrapeVars, active, output, writes>>

\* main().catch, lines 248-251
Caught ==
    /\ pc = "caught"
    /\ exitCode' = 1
    /\ pc' = "exited"
    /\ UNCHANGED <<uiVars, cookieVars, delay, sess, listVars, browsers, loginVars, expandVars,
                   scrapeVars, active, output, writes>>

Next ==
    \/ ReadInput \/ Classify
    \/ Launch \/ NewContext \/ ApplyEnvCookies \/ NewPage
    \/ LoginGoto \/ LoginCheck \/ LoginWait
    \/ ExpandLoop \/ ExGoto \/ ExSettle \/ ExScan \/ ExScroll \/ ExDwell \/ ExReturn
    \/ ClosePre \/ Resolve
    \/ ScrapeLoop \/ SpGoto \/ SpSettle \/ SpName \/ SpHeadline \/ SpReveal
    \/ SpClick \/ SpClickWait \/ SpContent \/ SpLinks \/ SpReturn \/ Sleep
    \/ Close \/ Write \/ Log \/ Caught

Spec == Init /\ [][Next]_vars

\* the opening of the expansion session (lines 194-196) in every environment,
\* for a run without inputs
InitCookies ==
    /\ pc = "launch"
    /\ sess = "pre"
    /\ urls = <<>>
    /\ directProfileUrls = <<>>
    /\ collectionUrls = <<>>
    /\ browsers = [pre |-> "none", main |-> "none"]
    /\ needsLogin = FALSE
    /\ expandedFromCollections = <<>>
    /\ ci = 1
    /\ round = 0
    /\ collected = <<>>
    /\ discovered = <<>>
    /\ exFailed = NoError
    /\ ti = 1
    /\ page = BlankPage
    /\ result = NewResult(<<>>)
    /\ clicked = FALSE
    /\ stepLog = {}
    /\ results = <<>>
    /\ active = {}
    /\ output = NoOutput
    /\ writes = 0
    /\ exitCode = 0
    /\ env \in Envs
    /\ jar = <<>>
    /\ maxProfiles = DefaultMaxProfiles
    /\ delay = 0
    /\ UiNotMounted

NextCookies == Launch \/ NewContext \/ ApplyEnvCookies \/ Caught

SpecCookies == InitCookies /\ [][NextCookies]_vars

\* caps the expander is exercised with
MaxCap == 2

\* one call of expandPeopleCollectionToProfiles (lines 60-86) on a collection
\* input, entered with a cap the scans can reach
InitExpand ==
    /\ pc = "exGoto"
    /\ sess = "pre"
    /\ urls = <<UColl>>
    /\ directProfileUrls = <<>>
    /\ collectionUrls = <<UColl>>
    /\ browsers = [pre |-> "open", main |-> "none"]
    /\ needsLogin = FALSE
    /\ expandedFromCollections = <<>>
    /\ ci = 1
    /\ round = 0
    /\ collected = <<>>
    /\ discovered = <<>>
    /\ exFailed = NoError
    /\ maxProfiles \in 1..MaxCap
    /\ delay = 0
    /\ ti = 1
    /\ page = BlankPage
    /\ result = NewResult(<<>>)
    /\ clicked = FALSE
    /\ stepLog = {}
    /\ results = <<>>
    /\ active = {<<"expand", 1>>}
    /\ output = NoOutput
    /\ writes = 0
    /\ exitCode = 0
    /\ env \in RunEnvs
    /\ jar = EnvCookies(env)
    /\ UiNotMounted

NextExpand == ExGoto \/ ExSettle \/ ExScan \/ ExScroll \/ ExDwell \/ ExReturn

SpecExpand == InitExpand /\ [][NextExpand]_vars

-----------------------------------------------------------------------------
(* Properties *)

Sessions == {"pre", "main"}

\* Resolve found at least one target and main went on to the extraction session
TargetsResolved == sess = "main"

\* C1: every browsing session main launched is closed on every exit path:
\* no run ends with a launched browser that was never closed.
C1_SessionsClosedAtExit ==
    pc = "exited" => \A s \in Sessions : browsers[s] # "open"

----------------------------------------------------------------------------
(* scrapeProfile *)

SpSteps == <<"spGoto", "spSettle", "spName", "spHeadline", "spReveal", "spClick",
             "spClickWait", "spContent", "spLinks">>

SpPcs == Range(SpSteps) \cup {"spReturn"}

\* steps whose failure reaches the catch of line 165
ThrowingSteps == {"spGoto", "spSettle", "spClickWait", "spContent", "spLinks"}

StepIndex(step) == CHOOSE i \in 1..Len(SpSteps) : SpSteps[i] = step

\* position of the step that ended the call: past the last step when none threw
EndIndex == IF result.error = NoError THEN Len(SpSteps) + 1 ELSE StepIndex(result.error)

ShownText(elem) == IF elem.found THEN Trim(elem.text) ELSE <<>>

\* each field holds what its step collected if that step ran before the call
\* ended, and its initial value otherwise
FieldsAsCollected ==
    /\ result.url = urls[ti]
    /\ result.name = IF StepIndex("spName") < EndIndex THEN ShownText(page.h1) ELSE <<>>
    /\ result.headline =
          IF StepIndex("spHeadline") < EndIndex THEN ShownText(page.headline) ELSE <<>>
    /\ result.emails =
          IF StepIndex("spContent") < EndIndex THEN extractEmails(FullText) ELSE <<>>
    /\ result.phones =
          IF StepIndex("spContent") < EndIndex THEN extractPhones(FullText) ELSE <<>>
    /\ result.links =
          IF StepIndex("spLinks") < EndIndex THEN CollectLinks(page.hrefs) ELSE <<>>

\* C2 as stated: whenever any step of the extraction failed (a name/headline read
\* and the reveal click included), the returned record carries that failure's
\* message in error and the other fields keep what was collected before it.
C2_EveryFailedStepReported ==
    pc = "spReturn" /\ stepLog # {} =>
        /\ result.error \in stepLog
        /\ FieldsAsCollected

\* C2 amended: scrapeProfile never lets an exception escape; a failure of the
\* navigation, a wait, the content capture or the link enumeration gives a record
\* whose error is that failure's message and whose fields keep what was collected
\* before it; a failed name/headline read or reveal click is swallowed where it
\* happens and sets no error.
C2_ErrorRecordKeepsCollected ==
    [][ /\ pc = "spReturn" =>
            /\ FieldsAsCollected
            /\ result.error # NoError <=> stepLog \cap ThrowingSteps # {}
            /\ result.error # NoError => result.error \in stepLog \cap ThrowingSteps
        /\ pc \in SpPcs => pc' \in SpPcs \cup {"sleep"} ]_vars

C2_Witness ==
    /\ pc = "spReturn"
    /\ result.error = "spLinks"
    /\ result.name = <<"Alice">>
    /\ Len(result.emails) = 3
    /\ result.links = <<>>

----------------------------------------------------------------------------
(* the fetch sequencer *)

SequencerDone == TargetsResolved /\ pc \in {"close", "write", "log"}

\* C3: the records are, in order, the records of the targets processed so far -
\* none skipped, none twice - and once the sequencer has finished there is
\* exactly one record per target, whichever targets failed.
C3_OneRecordPerTargetInOrder ==
    TargetsResolved =>
        /\ Len(results) <= Len(urls)
        /\ \A i \in 1..Len(results) : results[i].url = urls[i]
        /\ pc \in {"scrapeLoop", "sleep"} \cup SpPcs =>
              Len(results) = (IF pc = "sleep" THEN ti ELSE ti - 1)
        /\ SequencerDone => Len(results) = Len(urls)

C3_Witness ==
    /\ SequencerDone
    /\ Len(results) >= 3
    /\ results[1].error # NoError
    /\ results[2].error = NoError
    /\ results[3].error # NoError

----------------------------------------------------------------------------
(* exit status and export *)

\* C4: the exit status is non-zero exactly when no valid target was resolved;
\* once a target was resolved the run ends with status 0.
C4_NonZeroExitIffNoTargets ==
    pc = "exited" => (exitCode # 0 <=> ~TargetsResolved)

\* C5: once the resolved target list is non-empty, the run processes every
\* target and writes the output artifact before it ends.
C5_ResolvedRunExports ==
    pc = "exited" /\ TargetsResolved =>
        /\ Len(results) = Len(urls)
        /\ writes = 1
        /\ output.rows = results

----------------------------------------------------------------------------
(* collection expansion *)

\* the profile URLs the scans of the current expansion showed
seenProfiles == Range(discovered)

ExPcs == {"exGoto", "exSettle", "exScan", "exScroll", "exDwell", "exReturn"}

\* C6: a failure in any step of any round never leaves the expander: it returns
\* exactly the profile URLs the scans before the failure had shown (below the
\* cap), main appends them and goes on to the next collection or to the close
\* of the expansion session.
C6_ExpanderKeepsHarvest ==
    [][ /\ pc = "exReturn" =>
            /\ NoDup(collected)
            /\ Range(collected) \subseteq seenProfiles
            /\ Len(collected) < MaxProfilesArg => Range(collected) = seenProfiles
            /\ expandedFromCollections' = expandedFromCollections \o collected
            /\ ci' = ci + 1
        /\ pc \in ExPcs => pc' \in ExPcs \cup {"expandLoop"}
        /\ pc = "expandLoop" => pc' \in {"exGoto", "closePre"} ]_vars

C6_Witness ==
    /\ pc = "exReturn"
    /\ exFailed = "exScan"
    /\ round = 2
    /\ Len(collected) = 2
    /\ ci < Len(collectionUrls)

----------------------------------------------------------------------------
(* sessions and sequencing *)

\* C7: at most one browsing session is open at any time.
C7_AtMostOneSessionOpen ==
    Cardinality({s \in Sessions : browsers[s] = "open"}) <= 1

C7_Witness == browsers.pre = "closed" /\ browsers.main = "open"

\* C8: at most one page-driving call is in progress; while a target is being
\* extracted every collection has been expanded and every earlier target's
\* extraction has returned its record.
C8_PageStepsSequential ==
    /\ Cardinality(active) <= 1
    /\ \A a \in active :
          a[1] = "scrape" =>
              /\ ci = Len(collectionUrls) + 1
              /\ a[2] = ti
              /\ Len(results) = ti - 1
    /\ \A a \in active :
          a[1] = "expand" => a[2] = ci /\ results = <<>>

C8_Witness ==
    /\ active = {<<"scrape", 2>>}
    /\ Len(collectionUrls) = 2
    /\ pc = "spContent"

----------------------------------------------------------------------------
(* classification *)

Variants(u) ==
    (IF isProfileUrl(u) THEN {"DirectTarget"} ELSE {})
    \cup (IF isPeopleCollectionUrl(u) THEN {"Collection"} ELSE {})
    \cup (IF ~isProfileUrl(u) /\ ~isPeopleCollectionUrl(u) THEN {"Rejected"} ELSE {})

\* C9: every input is classified as exactly one of DirectTarget, Collection and
\* Rejected; no input is in both the direct-profile list and the collection list.
C9_ClassificationExclusive ==
    pc # "readInput" /\ pc # "classify" =>
        /\ \A u \in Range(directProfileUrls) \cup Range(collectionUrls) :
              Cardinality(Variants(u)) = 1
        /\ Range(directProfileUrls) \cap Range(collectionUrls) = {}

\* C10: inputs that denote the same profile and differ only by a query string
\* collapse: the resolved target list holds one target per normalized URL.
C10_QueryVariantsCollapse ==
    TargetsResolved =>
        \A i, j \in 1..Len(urls) : CleanHref(urls[i]) = CleanHref(urls[j]) => i = j

----------------------------------------------------------------------------
(* target resolution *)

\* the inputs as joined and deduplicated by line 190, while main still holds them
InputsHeld == pc \in {"launch", "context", "cookies", "newPage", "loginGoto",
                      "loginCheck", "loginWait", "expandLoop", "closePre",
                      "resolve"} \cup ExPcs

\* C11: every resolved target matches the profile pattern and is absolute; an
\* input that is a relative profile path is a target after the site origin is
\* prefixed, not dropped, and no scheme-less input is handed on as it is.
C11_TargetsAbsoluteProfiles ==
    /\ TargetsResolved =>
          \A i \in 1..Len(urls) : isProfileUrl(urls[i]) /\ IsAbsolute(urls[i])
    /\ InputsHeld /\ sess = "pre" =>
          \A u \in Range(urls) :
              isProfileUrl(toAbsoluteUrl(u)) =>
                  toAbsoluteUrl(u) \in Range(directProfileUrls)

\* position of the first occurrence of x in s
FirstIndex(s, x) == CHOOSE i \in 1..Len(s) : s[i] = x /\ \A j \in 1..(i - 1) : s[j] # x

\* out holds the profile URLs of src, each once, ordered by first occurrence in src
FirstOccurrencesOf(out, src) ==
    /\ NoDup(out)
    /\ Range(out) = {u \in Range(src) : isProfileUrl(u)}
    /\ \A i, j \in 1..Len(out) :
          i < j => FirstIndex(src, out[i]) < FirstIndex(src, out[j])

\* C12: the resolved target list is duplicate-free and ordered: the direct
\* profile inputs in input order, then the discoveries in collection order and
\* discovery order, a repeated URL keeping the place of its first occurrence;
\* the records are in the order of the target list.
C12_TargetsInFirstOccurrenceOrder ==
    [][ /\ pc = "classify" => FirstOccurrencesOf(directProfileUrls', urls)
        /\ pc = "exReturn" =>
              expandedFromCollections' = expandedFromCollections \o collected
        /\ pc = "resolve" =>
              FirstOccurrencesOf(urls', directProfileUrls \o expandedFromCollections)
        /\ TargetsResolved' =>
              \A i \in 1..Len(results') : results'[i].url = urls'[i] ]_vars

C12_Witness ==
    /\ TargetsResolved
    /\ pc = "launch"
    /\ directProfileUrls = <<UAlice>>
    /\ expandedFromCollections = <<UBob, UAlice>>
    /\ urls = <<UAlice, UBob>>

----------------------------------------------------------------------------
(* opening a session *)

LoginPcs == {"loginGoto", "loginCheck", "loginWait"}

\* C13: ensureLoggedIn never fails the run: from each of its steps control stays
\* in ensureLoggedIn or goes on to the step of main that follows it, and the
\* single bounded wait is followed by that step whatever the indicator showed.
C13_LoginAlwaysProceeds ==
    [][ /\ pc \in LoginPcs => pc' \in LoginPcs \cup {AfterLogin}
        /\ pc = "loginWait" => pc' = AfterLogin ]_vars

----------------------------------------------------------------------------
(* session cookies *)

LiAtCount(cookies) == Cardinality({i \in 1..Len(cookies) : cookies[i].name = "li_at"})

\* the entries of the configured list that are read: those before the first
\* null entry of an array, none when the value is no array
Accepted(json) ==
    IF json.kind # "array" THEN <<>>
    ELSE LET stops == {i \in 1..Len(json.items) : json.items[i] = ENull}
         IN  IF stops = {} THEN json.items
             ELSE SubSeq(json.items, 1, (CHOOSE i \in stops : \A j \in stops : i <= j) - 1)

CookiesApplied == pc = "newPage"

\* C14 as stated: whatever the cookie list and the standalone token are, the
\* cookies applied to a context hold at most one cookie named li_at.
C14_AtMostOneSessionCookie ==
    CookiesApplied => LiAtCount(jar) <= 1

\* C14 amended: the entries read from the list are applied as given, in order;
\* the standalone token adds one li_at cookie after them exactly when it is set
\* and none of these entries is named li_at, so the applied set holds as many
\* li_at cookies as the list gave, or the standalone one, or none.
C14_StandaloneOnlyWithoutListed ==
    CookiesApplied =>
        LET listed == Accepted(env.LI_COOKIES_JSON)
            n == Len(listed)
            standalone == env.LI_AT # "" /\ \A i \in 1..n : listed[i].name # "li_at"
        IN  /\ Len(jar) = n + (IF standalone THEN 1 ELSE 0)
            /\ \A i \in 1..n : jar[i] = ToCookie(listed[i])
            /\ standalone => jar[n + 1] = LiAtCookie(env.LI_AT)
            /\ LiAtCount(jar) = (IF standalone THEN 1 ELSE LiAtCount(listed))

C14_Witness ==
    /\ CookiesApplied
    /\ env.LI_AT = "tok"
    /\ env.LI_COOKIES_JSON = JsonArray(<<ESession, ELiAtB>>)
    /\ Len(jar) = 2
    /\ jar[2].value = "b"

----------------------------------------------------------------------------
(* the cap of the expander *)

Min(a, b) == IF a <= b THEN a ELSE b

\* C15: at every point of an expansion, and so at its return, the harvested
\* list holds at most maxProfiles URLs, no URL twice and only profile URLs, and
\* is the first URLs discovered, in order of first discovery; the harvest stops
\* as soon as the cap is reached: the next step is then the return.
C15_HarvestWithinCap ==
    [][ /\ pc \in ExPcs =>
            /\ Len(collected) <= maxProfiles
            /\ NoDup(collected)
            /\ \A i \in 1..Len(collected) : isProfileUrl(collected[i])
            /\ collected = SubSeq(discovered, 1, Min(maxProfiles, Len(discovered)))
            /\ Len(collected) >= maxProfiles => pc = "exReturn"
        /\ pc = "exReturn" =>
            expandedFromCollections' = expandedFromCollections \o collected ]_vars

C15_Witness ==
    /\ pc = "exReturn"
    /\ exFailed = NoError
    /\ maxProfiles = 1
    /\ round = 1
    /\ discovered = <<UAlice, UBob>>
    /\ collected = <<UAlice>>

----------------------------------------------------------------------------
(* export *)

CsvExtensions == {".csv", ".CSV", ".Csv"}

\* C16: the mode of the artifact follows from the output path alone (tabular
\* when the path ends in .csv in any letter case, structured otherwise); the
\* artifact is written after every target was processed and the session was
\* closed, and a run that resolved a target ends having written it exactly once.
C16_ModeByPathWrittenOnce ==
    /\ writes >= 1 =>
          /\ output.mode =
                (IF output.path[Len(output.path)] \in CsvExtensions THEN "csv" ELSE "json")
          /\ Len(results) = Len(urls)
          /\ browsers.main = "closed"
    /\ pc = "exited" /\ TargetsResolved => writes = 1

\* C17: in every exported record the emails, the phones and the links are
\* duplicate-free and in ascending order.  Strings are compared token by token,
\* tokens by their place in the ascending table (letter-case variants share a
\* place, so the statement does not depend on how case is ordered).
C17_ExportedListsSorted ==
    LET table == << {"+968 2412 3456"}, {"/alice"}, {"/in/"}, {"0551234567"},
                    {"A.NAME@example.com", "A.Name@Example.com"},
                    {"GitHub.com", "github.com"}, {"bob"}, {"bob@acme.om"},
                    {"http://"}, {"https://"}, {"https://www."},
                    {"linkedin.com"}, {"mailto:"}, {"tel:"} >>
        Rank(t) == CHOOSE i \in 1..Len(table) : t \in table[i]
        RECURSIVE Precedes(_, _)
        Precedes(a, b) ==
            IF b = <<>> THEN FALSE
            ELSE IF a = <<>> THEN TRUE
            ELSE IF Rank(Head(a)) # Rank(Head(b)) THEN Rank(Head(a)) < Rank(Head(b))
            ELSE Precedes(Tail(a), Tail(b))
        AscendingTokens(list) ==
            \A i, j \in 1..Len(list) :
                i < j => list[i] # list[j] /\ Rank(list[i]) <= Rank(list[j])
        AscendingLinks(list) ==
            \A i, j \in 1..Len(list) :
                i < j => list[i] # list[j] /\ ~Precedes(list[j], list[i])
    IN  writes >= 1 =>
            \A k \in 1..Len(output.rows) :
                /\ AscendingTokens(output.rows[k].emails)
                /\ AscendingTokens(output.rows[k].phones)
                /\ AscendingLinks(output.rows[k].links)

----------------------------------------------------------------------------
(* the text extractors *)

\* C18: extractEmails deduplicates without regard to letter case: the list it
\* returns never holds two entries that are equal once lower-cased.
C18_EmailsDedupedIgnoringCase ==
    LET Lowered(t) ==
            IF t \in {"A.Name@Example.com", "A.NAME@example.com"}
            THEN "a.name@example.com" ELSE t
    IN  pc \in {"spLinks", "spReturn"} =>
            \A i, j \in 1..Len(result.emails) :
                Lowered(result.emails[i]) = Lowered(result.emails[j]) => i = j

\* C19: extractPhones first maps Arabic-Indic and Eastern Arabic-Indic digits to
\* ASCII digits: a number of the page text written in such digits is returned
\* as its ASCII equivalent, and every returned string holds ASCII digits only.
C19_PhonesDigitNormalized ==
    LET Normalized(t) == IF t = EasternNumber THEN "0551234567" ELSE t
    IN  pc = "spLinks" =>
            /\ \A i \in 1..Len(FullText) :
                  Normalized(FullText[i]) \in PhoneTokens =>
                      Normalized(FullText[i]) \in Range(result.phones)
            /\ EasternNumber \notin Range(result.phones)

----------------------------------------------------------------------------
(* a run without targets *)

\* main left at line 211: the expansion session was closed, no target was found
ZeroTargetExit == pc = "exited" /\ browsers.pre = "closed" /\ ~TargetsResolved

\* C20 as stated: a run whose ResultSet has no record ends with an output file
\* of zero data rows written.
C20_EmptyResultSetExported ==
    ZeroTargetExit => writes = 1 /\ output.rows = <<>>

\* C20 amended: the exporter is never given an empty ResultSet: without a
\* resolved target main exits with status 1 before the extraction session and
\* writes no file, and every file written holds at least one record.
C20_NoExportWithoutTargets ==
    /\ ZeroTargetExit =>
          /\ results = <<>>
          /\ writes = 0
          /\ output = NoOutput
          /\ exitCode = 1
          /\ browsers.main = "none"
    /\ pc = "write" => Len(results) >= 1
    /\ writes >= 1 => Len(output.rows) >= 1

C20_Witness ==
    /\ ZeroTargetExit
    /\ Len(collectionUrls) = 1
    /\ ci = 2
    /\ exitCode = 1
    /\ writes = 0

----------------------------------------------------------------------------
(* the rounds of the expander *)

\* steps an expansion can still take: the rounds left, three steps each
StepsLeft ==
    CASE pc = "exGoto" -> 3 * MaxRounds + 5
      [] pc = "exSettle" -> 3 * MaxRounds + 4
      [] pc = "exScan" -> 3 * (MaxRounds - round) + 3
      [] pc = "exScroll" -> 3 * (MaxRounds - round) + 2
      [] pc = "exDwell" -> 3 * (MaxRounds - round) + 1
      [] OTHER -> 0

\* C21: a scan or a scroll only happens in a round below 15 and every new scan
\* is in the next round, so one collection gets at most 15 scans and 15
\* scrolls whatever the page shows; every step of an expansion lowers the
\* number of steps it can still take, so the expansion terminates.
C21_RoundsBounded ==
    [][ /\ pc \in {"exScan", "exScroll", "exDwell"} => round < MaxRounds
        /\ pc \in ExPcs /\ pc' = "exScan" =>
              round' = (IF pc = "exSettle" THEN 0 ELSE round + 1)
        /\ pc \in ExPcs /\ pc' = "exScroll" => pc = "exScan" /\ round' = round
        /\ pc \in ExPcs /\ pc' \in ExPcs => 0 <= StepsLeft' /\ StepsLeft' < StepsLeft
      ]_vars

C21_Witness ==
    /\ pc = "exReturn"
    /\ round = MaxRounds
    /\ exFailed = NoError
    /\ Len(collected) < maxProfiles

----------------------------------------------------------------------------
(* optional page elements *)

\* failures that are swallowed where they happen (lines 133, 134, 139)
SwallowedSteps == {"spName", "spHeadline", "spClick"}

\* C22: an absent heading, headline or reveal control, and a reveal control
\* whose activation fails, never lead to the catch: the field is the empty
\* string, no error is set, the next step is the one that follows, and a call
\* in which nothing else failed returns a record without error whose emails,
\* phones and links were collected.
C22_MissingElementNotAnError ==
    [][ /\ pc = "spName" =>
              /\ pc' = "spHeadline"
              /\ result'.error = NoError
              /\ ~page.h1.found => result'.name = <<>>
        /\ pc = "spHeadline" =>
              /\ pc' = "spReveal"
              /\ result'.error = NoError
              /\ ~page.headline.found => result'.headline = <<>>
        /\ pc = "spReveal" =>
              /\ pc' = (IF page.reveal = "absent" THEN "spContent" ELSE "spClick")
              /\ result' = result
        /\ pc = "spClick" => pc' = "spClickWait" /\ result' = result
        /\ pc = "spReturn" /\ stepLog \subseteq SwallowedSteps =>
              /\ result.error = NoError
              /\ result.emails = extractEmails(FullText)
              /\ result.phones = extractPhones(FullText)
              /\ result.links = CollectLinks(page.hrefs) ]_vars

C22_Witness ==
    /\ pc = "spReturn"
    /\ page = DocBob
    /\ stepLog = {"spHeadline", "spClick"}
    /\ result.error = NoError
    /\ result.name = <<"Bob">>
    /\ result.headline = <<>>
    /\ Len(result.links) = 1

----------------------------------------------------------------------------
(* contact links *)

\* C23: after the link collection every kept link is absolute (or a mail /
\* telephone URI), is allowed - it uses the mail or telephone scheme, holds the
\* profile signature or holds a recognised keyword - and occurs once; and every
\* href of the page that is allowed once normalized is among the links.
C23_LinksAllowedAndComplete ==
    LET UsesContactScheme(link) == Head(link) \in SchemeTokens
        Allowed(link) ==
            \/ UsesContactScheme(link)
            \/ isProfileUrl(link)
            \/ \E i \in 1..Len(link) : link[i] \in KeywordTokens
        Normal(href) ==
            IF Head(href) \in HttpTokens \cup SchemeTokens THEN href ELSE Origin \o href
    IN  pc = "spReturn" /\ result.error = NoError =>
            /\ NoDup(result.links)
            /\ \A i \in 1..Len(result.links) :
                  /\ IsAbsolute(result.links[i]) \/ UsesContactScheme(result.links[i])
                  /\ Allowed(result.links[i])
            /\ \A i \in 1..Len(page.hrefs) :
                  page.hrefs[i] # <<>> /\ Allowed(Normal(page.hrefs[i])) =>
                      Normal(page.hrefs[i]) \in Range(result.links)

----------------------------------------------------------------------------
(* pacing *)

\* C24: the sleep after a target lasts d ms with 1000 <= d < 2500, and the
\* extraction of every target but the first starts from the loop header only
\* after such a sleep has elapsed.
C24_DelayBetweenTargets ==
    [][ /\ pc = "sleep" =>
              /\ pc' = "scrapeLoop"
              /\ 1000 <= delay' /\ delay' < 2500
        /\ pc' = "spGoto" =>
              /\ pc = "scrapeLoop"
              /\ ti > 1 => 1000 <= delay /\ delay < 2500
        /\ pc' = "scrapeLoop" /\ pc # "scrapeLoop" /\ ti' > 1 => pc = "sleep" ]_vars

C24_Witness ==
    /\ pc = "scrapeLoop"
    /\ ti = 2
    /\ Len(urls) >= 2
    /\ delay = 2499

----------------------------------------------------------------------------
(* the exit without targets *)

\* C25: when the target list comes out empty at line 208, the expansion session
\* is already closed, the process exits at once, no extraction session was or
\* is launched and no target page was navigated to; nothing happens after the
\* exit.
C25_ZeroTargetsExitClean ==
    [][ /\ pc = "resolve" /\ Len(urls') = 0 =>
              /\ browsers.pre = "closed"
              /\ pc' = "exited"
              /\ exitCode' = 1
              /\ browsers' = browsers
              /\ browsers.main = "none"
              /\ results' = <<>> /\ ti' = 1 /\ page' = BlankPage
        /\ pc # "exited" ]_vars

C25_Witness ==
    /\ pc = "exited"
    /\ sess = "pre"
    /\ browsers = [pre |-> "closed", main |-> "none"]
    /\ directProfileUrls = <<>>
    /\ collectionUrls = <<>>
    /\ urls = <<>>
    /\ exitCode = 1

-----------------------------------------------------------------------------
(* The bank guide: Index (pages/Index.tsx)                                  *)

\* the variables of the command-line run, which the application never touches
cliVars ==
    <<pc, sess, listVars, browsers, loginVars, expandVars, scrapeVars, active,
      outVars, cookieVars, delay>>

\* no command-line run is in progress
CliNotRunning ==
    /\ pc = "readInput"
    /\ sess = "pre"
    /\ urls = <<>>
    /\ directProfileUrls = <<>>
    /\ collectionUrls = <<>>
    /\ browsers = [pre |-> "none", main |-> "none"]
    /\ needsLogin = FALSE
    /\ expandedFromCollections = <<>>
    /\ ci = 1
    /\ round = 0
    /\ collected = <<>>
    /\ discovered = <<>>
    /\ exFailed = NoError
    /\ ti = 1
    /\ page = BlankPage
    /\ result = NewResult(<<>>)
    /\ clicked = FALSE
    /\ stepLog = {}
    /\ results = <<>>
    /\ active = {}
    /\ output = NoOutput
    /\ writes = 0
    /\ exitCode = 0
    /\ env = [LI_COOKIES_JSON |-> JsonUnset, LI_AT |-> ""]
    /\ jar = <<>>
    /\ maxProfiles = DefaultMaxProfiles
    /\ delay = 0

\* the last reading of the clock a handler may take
MaxClock == 2

SeedEmployee ==
    [id |-> <<"emp-", 0>>, branchId |-> <<"branch-", -1>>, name |-> "Said",
     phone |-> "9681", addedDate |-> 0]

SeedBranchA ==
    [id |-> <<"branch-", -1>>, bankId |-> "muscat", name |-> "Ruwi",
     city |-> "Muscat", address |-> "Ruwi St", employees |-> <<SeedEmployee>>]

SeedBranchB ==
    [id |-> <<"branch-", 0>>, bankId |-> "muscat", name |-> "Port",
     city |-> "Sohar", address |-> "Port Rd", employees |-> <<>>]

\* what storage can hold when Index mounts
Seeds ==
    {[banks |-> <<[id |-> "muscat", branches |-> <<SeedBranchA, SeedBranchB>>],
                  [id |-> "dhofar", branches |-> <<>>]>>,
      lastUpdated |-> 0],
     [banks |-> <<[id |-> "dhofar", branches |-> <<>>],
                  [id |-> "muscat", branches |-> <<SeedBranchB>>]>>,
      lastUpdated |-> 0]}

\* utils/bankData: loadBankData returns what saveBankData stored last
loadBankData == stored

saveBankData(data) == stored' = data

MutReplaceBankEvery(banks, updatedBank) ==
    [i \in 1..Len(banks) |-> updatedBank]

\* bankData.banks.map(..) of lines 78-80
ReplaceBank(banks, updatedBank) ==
    [i \in 1..Len(banks) |->
        IF banks[i].id = updatedBank.id THEN updatedBank ELSE banks[i]]

\* lines 75-86; the 'bank-data-updated' listener (31-40) reloads what was
\* just saved, which is newBankData again
updateBank(updatedBank) ==
    LET newBankData ==
            [banks |-> ReplaceBank(bankData.banks, updatedBank),
             lastUpdated |-> clock]
    IN  /\ clock <= MaxClock
        /\ bankData' = newBankData
        /\ saveBankData(newBankData)
        /\ selectedBank' = updatedBank
        /\ clock' = clock + 1

\* lines 88-102
handleDataCollected ==
    LET current == loadBankData
        newBankData == [current EXCEPT !.lastUpdated = clock]
    IN  /\ clock <= MaxClock
        /\ bankData' = newBankData
        /\ saveBankData(newBankData)
        /\ toast' = "data-updated"
        /\ clock' = clock + 1
        /\ UNCHANGED selectedBank

\* DataCollector leaves the tree: its state is dropped, and the calls still in
\* progress keep running against the unmounted instance
CollectorUnmounts ==
    /\ isCollecting' = FALSE
    /\ progress' = 0
    /\ collectionResults' = <<>>
    /\ searchUrl' = ""
    /\ invocations' =
          [i \in 1..Len(invocations) |-> [invocations[i] EXCEPT !.mounted = FALSE]]

\* BankDetails leaves the tree: its state is dropped
DetailsUnmounts ==
    /\ selectedBranch' = NoBranch
    /\ activeTab' = "branches"
    /\ isAddingEmployee' = FALSE
    /\ isAddingBranch' = FALSE
    /\ isQuickAddOpen' = NoId
    /\ newEmployee' = EmptyEmployeeForm
    /\ newBranch' = EmptyBranchForm

\* onViewDetails={setSelectedBank} (230): Index renders BankDetails alone (125-137)
ViewDetails ==
    /\ selectedBank = NoBank
    /\ \E i \in 1..Len(bankData.banks) : selectedBank' = bankData.banks[i]
    /\ CollectorUnmounts
    /\ UNCHANGED <<cliVars, bankData, stored, clock, toast, detailsVars>>

\* onBack (131)
Back ==
    /\ selectedBank # NoBank
    /\ selectedBank' = NoBank
    /\ DetailsUnmounts
    /\ UNCHANGED <<cliVars, bankData, stored, clock, toast, collectorVars>>

\* the timer callback of refreshData (106-113)
RefreshData ==
    /\ bankData' = loadBankData
    /\ toast' = "refreshed"
    /\ UNCHANGED <<cliVars, selectedBank, stored, clock, collectorVars, detailsVars>>

\* Index has mounted and loaded the stored data (24-29)
InitIndex ==
    /\ CliNotRunning
    /\ stored \in Seeds
    /\ bankData = loadBankData
    /\ selectedBank = NoBank
    /\ clock = 1
    /\ toast = "none"
    /\ CollectorNotMounted
    /\ DetailsNotMounted

\* the banks updateBank is called with
BankInputs ==
    [id : {"muscat", "dhofar", "nizwa"},
     branches : {<<>>, <<SeedBranchB>>, <<SeedBranchB, SeedBranchA>>}]

\* a call of updateBank
UpdateBank ==
    /\ \E b \in BankInputs : updateBank(b)
    /\ UNCHANGED <<cliVars, toast, collectorVars, detailsVars>>

\* a call of handleDataCollected
HandleDataCollected ==
    /\ handleDataCollected
    /\ UNCHANGED <<cliVars, collectorVars, detailsVars>>

NextIndex == ViewDetails \/ Back \/ RefreshData \/ UpdateBank \/ HandleDataCollected

SpecIndex == InitIndex /\ [][NextIndex]_vars

-----------------------------------------------------------------------------
(* The bank guide: DataCollector (components/DataCollector.tsx)             *)

\* calls of simulateDataCollection in progress at once
MaxRunning == 2

\* what the custom URL field can hold
SearchUrls == {"", "https://cbo.gov.om"}

\* line 40
intervals == <<20, 40, 60, 80, 100>>

\* DataCollector is rendered by Index's main view only (125-137, 258)
CollectorShown == selectedBank = NoBank

\* lines 36-42: simulateDataCollection up to its first await
simulateDataCollection(source) ==
    /\ Len(invocations) < MaxRunning
    /\ isCollecting' = TRUE
    /\ progress' = 0
    /\ invocations' =
          Append(invocations, [source |-> source, step |-> 0, mounted |-> TRUE])
    /\ UNCHANGED <<collectionResults, searchUrl>>

\* onChange of the custom URL field (325)
SetSearchUrl ==
    /\ CollectorShown
    /\ \E u \in SearchUrls : searchUrl' = u
    /\ UNCHANGED <<isCollecting, progress, collectionResults, invocations>>
    /\ UNCHANGED <<cliVars, indexVars, detailsVars, toast>>

\* lines 70-72; the button (207, 217) is enabled whatever isCollecting is
CollectFromOfficialSources ==
    /\ CollectorShown
    /\ simulateDataCollection(<<"official">>)
    /\ UNCHANGED <<cliVars, indexVars, detailsVars, toast>>

\* lines 74-76; the button (237, 247) is enabled whatever isCollecting is
CollectFromBusinessDirectories ==
    /\ CollectorShown
    /\ simulateDataCollection(<<"directories">>)
    /\ UNCHANGED <<cliVars, indexVars, detailsVars, toast>>

\* lines 78-88; the button (341) is enabled whatever isCollecting is
CollectFromCustomUrl ==
    /\ CollectorShown
    /\ IF searchUrl = ""
         THEN /\ toast' = "url-required"
              /\ UNCHANGED collectorVars
         ELSE /\ simulateDataCollection(<<"custom", searchUrl>>)
              /\ UNCHANGED toast
    /\ UNCHANGED <<cliVars, indexVars, detailsVars>>

\* timers of one duration fire in the order they were set: invocations is
\* kept in the order of the pending timers, and the first one is due

\* lines 41-44, for a target that is not the last: the await of line 42
\* resolves and line 43 runs and the next timer is set; a state setter of an
\* unmounted instance does nothing
TimerFires ==
    /\ invocations # <<>>
    /\ LET inv == Head(invocations) IN
        /\ inv.step < Len(intervals) - 1
        /\ invocations' = Append(Tail(invocations), [inv EXCEPT !.step = inv.step + 1])
        /\ progress' = IF inv.mounted THEN intervals[inv.step + 1] ELSE progress
    /\ UNCHANGED <<isCollecting, collectionResults, searchUrl>>
    /\ UNCHANGED <<cliVars, indexVars, detailsVars, toast>>

\* lines 41-67 from the last await on: setProgress(100), the results, the reset
\* of isCollecting and progress, the toast and onDataCollected (Index 258:
\* handleDataCollected, whose toast is the one left showing).  The random
\* counts of lines 49-51 are not kept.
Finish ==
    /\ invocations # <<>>
    /\ LET inv == Head(invocations)
            mockResults ==
                <<[source |-> inv.source, status |-> "success", timestamp |-> clock]>>
        IN
        /\ inv.step = Len(intervals) - 1
        /\ invocations' = Tail(invocations)
        /\ IF inv.mounted
             THEN /\ collectionResults' = collectionResults \o mockResults
                  /\ isCollecting' = FALSE
                  /\ progress' = 0
             ELSE UNCHANGED <<collectionResults, isCollecting, progress>>
    /\ UNCHANGED searchUrl
    /\ handleDataCollected
    /\ UNCHANGED <<cliVars, detailsVars>>

NextCollector ==
    \/ ViewDetails \/ Back \/ SetSearchUrl
    \/ CollectFromOfficialSources \/ CollectFromBusinessDirectories
    \/ CollectFromCustomUrl \/ TimerFires \/ Finish

SpecCollector == InitIndex /\ [][NextCollector]_vars

\* C26: in every interleaving of collect-button clicks, isCollecting is true
\* exactly while some simulateDataCollection call has started and not finished.
C26_CollectingWhileAnyRuns ==
    CollectorShown =>
        (isCollecting <=> \E i \in 1..Len(invocations) : invocations[i].mounted)

-----------------------------------------------------------------------------
(* The bank guide: BankDetails (components/BankDetails.tsx)                 *)

\* the prop bank={selectedBank} (Index 130)
bank == selectedBank

\* BankDetails is rendered while a bank is selected (Index 125-137)
DetailsShown == selectedBank # NoBank

\* what the fields of the two forms can hold
EmployeeNames == {"", "Huda"}

EmployeePhones == {"", "9682"}

BranchNames == {"", "Seeb"}

BranchCities == {"", "Muscat"}

BranchAddresses == {"", "Souq Rd"}

\* a dialog is modal: while one is open nothing behind it can be activated
NoDialog == ~isAddingEmployee /\ ~isAddingBranch /\ isQuickAddOpen = NoId

MutAddToBranchAll(branches, branchId, employee) ==
    [i \in 1..Len(branches) |->
        [branches[i] EXCEPT !.employees = Append(@, employee)]]

\* bank.branches.map(..) of lines 73-77
AddToBranch(branches, branchId, employee) ==
    [i \in 1..Len(branches) |->
        IF branches[i].id = branchId
          THEN [branches[i] EXCEPT !.employees = Append(@, employee)]
          ELSE branches[i]]

\* bank.branches.find(b => b.id === branchId) || null (line 85)
FindBranch(branches, branchId) ==
    IF \E i \in 1..Len(branches) : branches[i].id = branchId
      THEN branches[CHOOSE i \in 1..Len(branches) :
                      /\ branches[i].id = branchId
                      /\ \A j \in 1..(i - 1) : branches[j].id # branchId]
      ELSE NoBranch

\* bank.branches.filter(b => b.id !== branchId) (line 186)
WithoutBranch(branches, branchId) ==
    SelectSeq(branches, LAMBDA b : b.id # branchId)

\* lines 49-91
addEmployee(branchId) ==
    IF newEmployee.name = "" \/ newEmployee.phone = ""
      THEN /\ toast' = "employee-required"
           /\ UNCHANGED <<indexVars, detailsVars>>
      ELSE LET employee ==
                   [id |-> <<"emp-", clock>>, branchId |-> branchId,
                    name |-> newEmployee.name, phone |-> newEmployee.phone,
                    addedDate |-> clock]
               updatedBank ==
                   [bank EXCEPT !.branches = AddToBranch(bank.branches, branchId, employee)]
           IN  /\ updateBank(updatedBank)
               /\ newEmployee' = EmptyEmployeeForm
               /\ isAddingEmployee' = FALSE
               /\ isQuickAddOpen' = NoId
               /\ activeTab' = "employees"
               /\ selectedBranch' = FindBranch(bank.branches, branchId)
               /\ toast' = "employee-added"
               /\ UNCHANGED <<isAddingBranch, newBranch>>

\* lines 93-137
addBranch ==
    IF newBranch.name = "" \/ newBranch.city = "" \/ newBranch.address = ""
      THEN /\ toast' = "branch-required"
           /\ UNCHANGED <<indexVars, detailsVars>>
      ELSE LET branch ==
                   [id |-> <<"branch-", clock>>, bankId |-> bank.id,
                    name |-> newBranch.name, city |-> newBranch.city,
                    address |-> newBranch.address, employees |-> <<>>]
               updatedBank == [bank EXCEPT !.branches = Append(@, branch)]
           IN  /\ updateBank(updatedBank)
               /\ newBranch' = EmptyBranchForm
               /\ isAddingBranch' = FALSE
               /\ toast' = "branch-added"
               /\ UNCHANGED <<selectedBranch, activeTab, isAddingEmployee,
                              isQuickAddOpen, newEmployee>>

MutRemoveBranchKeepsSelection(branchId) ==
    LET updatedBank == [bank EXCEPT !.branches = WithoutBranch(@, branchId)]
    IN  /\ updateBank(updatedBank)
        /\ toast' = "branch-removed"
        /\ UNCHANGED detailsVars

\* lines 183-194
removeBranch(branchId) ==
    LET updatedBank == [bank EXCEPT !.branches = WithoutBranch(@, branchId)]
    IN  /\ updateBank(updatedBank)
        /\ IF selectedBranch.id = branchId
             THEN /\ selectedBranch' = NoBranch
                  /\ activeTab' = "branches"
             ELSE UNCHANGED <<selectedBranch, activeTab>>
        /\ toast' = "branch-removed"
        /\ UNCHANGED <<isAddingEmployee, isAddingBranch, isQuickAddOpen,
                       newEmployee, newBranch>>

\* onValueChange of the tabs (234)
SetActiveTab ==
    /\ DetailsShown
    /\ NoDialog
    /\ \E v \in {"branches", "employees"} : activeTab' = v
    /\ UNCHANGED <<selectedBranch, isAddingEmployee, isAddingBranch,
                   isQuickAddOpen, newEmployee, newBranch>>
    /\ UNCHANGED <<cliVars, indexVars, collectorVars, toast>>

\* the show-employees button of a branch card (355-363)
SelectBranch ==
    /\ DetailsShown
    /\ NoDialog
    /\ activeTab = "branches"
    /\ \E i \in 1..Len(bank.branches) : selectedBranch' = bank.branches[i]
    /\ activeTab' = "employees"
    /\ UNCHANGED <<isAddingEmployee, isAddingBranch, isQuickAddOpen,
                   newEmployee, newBranch>>
    /\ UNCHANGED <<cliVars, indexVars, collectorVars, toast>>

\* the show-all-branches button of the employees tab (434)
ShowAllBranches ==
    /\ DetailsShown
    /\ NoDialog
    /\ activeTab = "employees"
    /\ selectedBranch # NoBranch
    /\ selectedBranch' = NoBranch
    /\ UNCHANGED <<activeTab, isAddingEmployee, isAddingBranch, isQuickAddOpen,
                   newEmployee, newBranch>>
    /\ UNCHANGED <<cliVars, indexVars, collectorVars, toast>>

\* onOpenChange of a branch card's quick-add dialog (364)
SetIsQuickAddOpen ==
    /\ DetailsShown
    /\ activeTab = "branches"
    /\ \E i \in 1..Len(bank.branches), open \in BOOLEAN :
          /\ IF open THEN NoDialog ELSE isQuickAddOpen = bank.branches[i].id
          /\ isQuickAddOpen' = IF open THEN bank.branches[i].id ELSE NoId
    /\ UNCHANGED <<selectedBranch, activeTab, isAddingEmployee, isAddingBranch,
                   newEmployee, newBranch>>
    /\ UNCHANGED <<cliVars, indexVars, collectorVars, toast>>

\* onOpenChange of the employees tab's add dialog (437)
SetIsAddingEmployee ==
    /\ DetailsShown
    /\ activeTab = "employees"
    /\ selectedBranch # NoBranch
    /\ \E open \in BOOLEAN :
          /\ IF open THEN NoDialog ELSE isAddingEmployee
          /\ isAddingEmployee' = open
    /\ UNCHANGED <<selectedBranch, activeTab, isAddingBranch, isQuickAddOpen,
                   newEmployee, newBranch>>
    /\ UNCHANGED <<cliVars, indexVars, collectorVars, toast>>

\* onOpenChange of the add-branch dialog (243)
SetIsAddingBranch ==
    /\ DetailsShown
    /\ activeTab = "branches"
    /\ \E open \in BOOLEAN :
          /\ IF open THEN NoDialog ELSE isAddingBranch
          /\ isAddingBranch' = open
    /\ UNCHANGED <<selectedBranch, activeTab, isAddingEmployee, isQuickAddOpen,
                   newEmployee, newBranch>>
    /\ UNCHANGED <<cliVars, indexVars, collectorVars, toast>>

\* onChange of a field of an employee dialog (381-399, 454-509)
SetNewEmployee ==
    /\ DetailsShown
    /\ isAddingEmployee \/ isQuickAddOpen # NoId
    /\ \/ \E v \in EmployeeNames : newEmployee' = [newEmployee EXCEPT !.name = v]
       \/ \E v \in EmployeePhones : newEmployee' = [newEmployee EXCEPT !.phone = v]
    /\ UNCHANGED <<selectedBranch, activeTab, isAddingEmployee, isAddingBranch,
                   isQuickAddOpen, newBranch>>
    /\ UNCHANGED <<cliVars, indexVars, collectorVars, toast>>

\* onChange of a field of the add-branch dialog (260-296)
SetNewBranch ==
    /\ DetailsShown
    /\ isAddingBranch
    /\ \/ \E v \in BranchNames : newBranch' = [newBranch EXCEPT !.name = v]
       \/ \E v \in BranchCities : newBranch' = [newBranch EXCEPT !.city = v]
       \/ \E v \in BranchAddresses : newBranch' = [newBranch EXCEPT !.address = v]
    /\ UNCHANGED <<selectedBranch, activeTab, isAddingEmployee, isAddingBranch,
                   isQuickAddOpen, newEmployee>>
    /\ UNCHANGED <<cliVars, indexVars, collectorVars, toast>>

\* the add button of a branch card's quick-add dialog (403)
AddEmployeeQuick ==
    /\ DetailsShown
    /\ activeTab = "branches"
    /\ \E i \in 1..Len(bank.branches) :
          /\ isQuickAddOpen = bank.branches[i].id
          /\ addEmployee(bank.branches[i].id)
    /\ UNCHANGED <<cliVars, collectorVars>>

\* the add button of the employees tab's dialog (515)
AddEmployeeSelected ==
    /\ DetailsShown
    /\ activeTab = "employees"
    /\ selectedBranch # NoBranch
    /\ isAddingEmployee
    /\ addEmployee(selectedBranch.id)
    /\ UNCHANGED <<cliVars, collectorVars>>

\* the add button of the add-branch dialog (300)
AddBranch ==
    /\ DetailsShown
    /\ activeTab = "branches"
    /\ isAddingBranch
    /\ addBranch
    /\ UNCHANGED <<cliVars, collectorVars>>

\* the confirm button of a branch card's delete dialog (337)
RemoveBranch ==
    /\ DetailsShown
    /\ activeTab = "branches"
    /\ NoDialog
    /\ \E i \in 1..Len(bank.branches) : removeBranch(bank.branches[i].id)
    /\ UNCHANGED <<cliVars, collectorVars>>

NextDetails ==
    \/ ViewDetails \/ Back \/ SetActiveTab \/ SelectBranch \/ ShowAllBranches
    \/ SetIsQuickAddOpen \/ SetIsAddingEmployee \/ SetIsAddingBranch
    \/ SetNewEmployee \/ SetNewBranch
    \/ AddEmployeeQuick \/ AddEmployeeSelected \/ AddBranch \/ RemoveBranch

SpecDetails == InitIndex /\ [][NextDetails]_vars

-----------------------------------------------------------------------------
(* Claims about the bank guide                                              *)

\* C27: addEmployee(branchId) changes the bank only by appending exactly one
\* employee, the one of the form, to the branch whose id is branchId: the bank
\* keeps its id and the number and order of its branches, every other branch
\* is unchanged and the branch keeps its fields and its employees before the
\* new one.  With an empty name or phone it changes neither the bank (the one
\* shown and the list) nor the form fields nor the dialogs.
C27_AddEmployeeFrame ==
    [][ \A i \in 1..Len(selectedBank.branches) :
          LET branchId == selectedBank.branches[i].id
              old == selectedBank.branches
              new == selectedBank'.branches
              grown(k) ==
                  /\ [new[k] EXCEPT !.employees = old[k].employees] = old[k]
                  /\ Len(new[k].employees) = Len(old[k].employees) + 1
                  /\ SubSeq(new[k].employees, 1, Len(old[k].employees)) = old[k].employees
                  /\ LET e == new[k].employees[Len(new[k].employees)] IN
                        /\ e.name = newEmployee.name
                        /\ e.phone = newEmployee.phone
                        /\ e.branchId = branchId
          IN
          (DetailsShown /\ addEmployee(branchId)) =>
              IF newEmployee.name = "" \/ newEmployee.phone = ""
                THEN /\ selectedBank' = selectedBank
                     /\ bankData' = bankData
                     /\ newEmployee' = newEmployee
                     /\ newBranch' = newBranch
                     /\ isAddingEmployee' = isAddingEmployee
                     /\ isQuickAddOpen' = isQuickAddOpen
                     /\ isAddingBranch' = isAddingBranch
                ELSE /\ selectedBank'.id = selectedBank.id
                     /\ Len(new) = Len(old)
                     /\ Cardinality({k \in 1..Len(old) : new[k] # old[k]}) = 1
                     /\ \A k \in 1..Len(old) :
                           IF old[k].id = branchId THEN grown(k) ELSE new[k] = old[k]
                     /\ \A k \in 1..Len(bankData.banks) :
                           bankData'.banks[k] =
                               IF bankData.banks[k].id = selectedBank.id
                                 THEN selectedBank'
                                 ELSE bankData.banks[k]
      ]_vars

\* an employee was added to the second of two branches
C27_Witness ==
    /\ toast = "employee-added"
    /\ Len(selectedBank.branches) = 2
    /\ selectedBank.branches[1] = SeedBranchA
    /\ Len(selectedBank.branches[2].employees) = 1
    /\ selectedBank.branches[2].employees[1].name = "Huda"

\* C28: after a successful addEmployee(branchId) the selectedBranch the
\* employees tab shows is the updated branch of the bank, whose employees
\* include the one just added.
C28_SelectedBranchShowsNewEmployee ==
    [][ \A i \in 1..Len(selectedBank.branches) :
          LET branchId == selectedBank.branches[i].id IN
          (/\ DetailsShown
           /\ addEmployee(branchId)
           /\ newEmployee.name # ""
           /\ newEmployee.phone # "") =>
              /\ activeTab' = "employees"
              /\ selectedBranch' = FindBranch(selectedBank'.branches, branchId)
              /\ \E k \in 1..Len(selectedBranch'.employees) :
                    selectedBranch'.employees[k].id = <<"emp-", clock>>
      ]_vars

\* C29: whatever branches are selected, added, given employees or removed,
\* selectedBranch is null or has the id of a branch of the bank shown;
\* removeBranch(id) removes the branch with that id and no other, keeping the
\* rest in their order, and resets the selection and the active tab exactly
\* when the removed branch was the selected one.
C29_SelectionPresentRemoveExact ==
    /\ selectedBranch = NoBranch
    /\ [][ /\ \/ selectedBranch' = NoBranch
              \/ \E k \in 1..Len(selectedBank'.branches) :
                    selectedBank'.branches[k].id = selectedBranch'.id
           /\ \A i \in 1..Len(selectedBank.branches) :
                LET id == selectedBank.branches[i].id
                    old == selectedBank.branches
                    new == selectedBank'.branches
                IN
                (DetailsShown /\ removeBranch(id)) =>
                    /\ Len(new) = Len(old) - 1
                    /\ new = SubSeq(old, 1, i - 1) \o SubSeq(old, i + 1, Len(old))
                    /\ \A k \in 1..Len(new) : new[k].id # id
                    /\ IF selectedBranch.id = id
                         THEN selectedBranch' = NoBranch /\ activeTab' = "branches"
                         ELSE selectedBranch' = selectedBranch /\ activeTab' = activeTab
         ]_vars

\* a branch was removed while another one, which stays, is selected
C29_Witness ==
    /\ toast = "branch-removed"
    /\ selectedBank.id = "muscat"
    /\ selectedBank.branches = <<SeedBranchA>>
    /\ selectedBranch = SeedBranchA
    /\ activeTab = "branches"
    /\ \E k \in 1..Len(bankData.banks) : bankData.banks[k] = selectedBank

====
